---- MODULE Spec2Model ----
(***************************************************************************)
(* The TaskTracker class of script.js: the tasks array, the filter, the    *)
(* localStorage entry "tasks" that mirrors the array, and the DOM the      *)
(* class renders into.  One action per event handler and per public        *)
(* method a caller can invoke; Init and Reload are the constructor.        *)
(*                                                                         *)
(* JavaScript strings are sequences of symbols.  A JavaScript object is a  *)
(* record whose DOMAIN is the set of properties it has, so an object that  *)
(* lacks a property is a record without that field.  A value that can be   *)
(* an array or something else (this.tasks, the result of JSON.parse) is a  *)
(* record [type, val].  A JSON text is a sequence of tokens <<kind, s>>.   *)
(***************************************************************************)
EXTENDS Integers, Sequences, FiniteSets, TLC

VARIABLES localStorage, tasks, filter, list, active,
          trace, raised, returned, last, issued, bound

vars == <<localStorage, tasks, filter, list, active,
          trace, raised, returned, last, issued, bound>>

\* ------------------------------------------------------------------ bounds
MaxTasks == 2

MaxIds == 2

\* --------------------------------------------------------------- strings
Whitespace == {" "}

RECURSIVE trimStart(_)
trimStart(s) ==
  IF s # <<>> /\ Head(s) \in Whitespace THEN trimStart(Tail(s)) ELSE s

RECURSIVE trimEnd(_)
trimEnd(s) ==
  IF s # <<>> /\ s[Len(s)] \in Whitespace
  THEN trimEnd(SubSeq(s, 1, Len(s) - 1))
  ELSE s

trim(s) == trimEnd(trimStart(s))

escapeChar(c) ==
  CASE c = "&" -> "&amp;"
    [] c = "<" -> "&lt;"
    [] c = ">" -> "&gt;"
    [] c = "\"" -> "&quot;"
    [] c = "'" -> "&#39;"
    [] OTHER -> c

escapeHtml(str) == [i \in 1..Len(str) |-> escapeChar(str[i])]

\* ------------------------------------------------------------------ JSON
DigitChars == <<"0", "1", "2", "3", "4", "5", "6", "7", "8", "9">>

RECURSIVE Digits(_)
Digits(n) ==
  IF n < 10 THEN <<DigitChars[n + 1]>>
  ELSE Digits(n \div 10) \o <<DigitChars[(n % 10) + 1]>>

DigitValue(c) == CHOOSE d \in 0..9 : DigitChars[d + 1] = c

RECURSIVE NumberOf(_)
NumberOf(ds) ==
  IF Len(ds) = 1 THEN DigitValue(ds[1])
  ELSE 10 * NumberOf(SubSeq(ds, 1, Len(ds) - 1)) + DigitValue(ds[Len(ds)])

Punct(c) == <<"punct", <<c>>>>
StrTok(s) == <<"string", s>>
NumTok(n) == <<"number", Digits(n)>>
LitTok(w) == <<"literal", <<w>>>>
Space == <<"space", <<" ">>>>

\* The order in which the properties of an object are written.
FieldOrder == <<"id", "text", "completed", "createdAt", "a">>

StringifyField(k, v) ==
  <<StrTok(<<k>>), Punct(":")>> \o
  <<CASE k \in {"id", "text"} -> StrTok(v)
      [] k = "completed" -> LitTok(IF v THEN "true" ELSE "false")
      [] OTHER -> NumTok(v)>>

RECURSIVE StringifyMembers(_, _, _)
StringifyMembers(o, i, first) ==
  IF i > Len(FieldOrder) THEN <<>>
  ELSE IF FieldOrder[i] \in DOMAIN o
       THEN (IF first THEN <<>> ELSE <<Punct(",")>>)
            \o StringifyField(FieldOrder[i], o[FieldOrder[i]])
            \o StringifyMembers(o, i + 1, FALSE)
       ELSE StringifyMembers(o, i + 1, first)

StringifyObject(o) ==
  <<Punct("{")>> \o StringifyMembers(o, 1, TRUE) \o <<Punct("}")>>

RECURSIVE StringifyElements(_)
StringifyElements(elems) ==
  IF elems = <<>> THEN <<>>
  ELSE StringifyObject(Head(elems))
       \o (IF Tail(elems) = <<>> THEN <<>> ELSE <<Punct(",")>>)
       \o StringifyElements(Tail(elems))

\* JSON.stringify of an array of objects.
JSONstringify(value) ==
  <<Punct("[")>> \o StringifyElements(value.val) \o <<Punct("]")>>

SyntaxError == [ok |-> FALSE]

RECURSIVE SkipSpace(_)
SkipSpace(toks) ==
  IF toks # <<>> /\ Head(toks)[1] = "space" THEN SkipSpace(Tail(toks))
  ELSE toks

IsPunct(toks, c) == toks # <<>> /\ Head(toks) = Punct(c)

RECURSIVE ParseValue(_)
RECURSIVE ParseElements(_, _)
RECURSIVE ParseMembers(_, _)

ParseValue(toks0) ==
  LET toks == SkipSpace(toks0) IN
  IF toks = <<>> THEN SyntaxError
  ELSE
    LET tok == Head(toks)
        rest == SkipSpace(Tail(toks))
    IN CASE tok[1] = "string" ->
              [ok |-> TRUE, type |-> "string", val |-> tok[2], rest |-> rest]
         [] tok[1] = "number" ->
              [ok |-> TRUE, type |-> "number", val |-> NumberOf(tok[2]),
               rest |-> rest]
         [] tok[1] = "literal" ->
              (CASE tok[2] = <<"true">> ->
                      [ok |-> TRUE, type |-> "boolean", val |-> TRUE,
                       rest |-> rest]
                 [] tok[2] = <<"false">> ->
                      [ok |-> TRUE, type |-> "boolean", val |-> FALSE,
                       rest |-> rest]
                 [] tok[2] = <<"null">> ->
                      [ok |-> TRUE, type |-> "null", val |-> <<>>,
                       rest |-> rest]
                 [] OTHER -> SyntaxError)
         [] tok = Punct("[") ->
              (IF IsPunct(rest, "]")
               THEN [ok |-> TRUE, type |-> "array", val |-> <<>>,
                     rest |-> SkipSpace(Tail(rest))]
               ELSE ParseElements(rest, <<>>))
         [] tok = Punct("{") ->
              (IF IsPunct(rest, "}")
               THEN [ok |-> TRUE, type |-> "object", val |-> <<>>,
                     rest |-> SkipSpace(Tail(rest))]
               ELSE ParseMembers(rest, <<>>))
         [] OTHER -> SyntaxError

ParseElements(toks, acc) ==
  LET v == ParseValue(toks) IN
  IF ~v.ok THEN SyntaxError
  ELSE IF IsPunct(v.rest, ",")
       THEN ParseElements(Tail(v.rest), Append(acc, v.val))
       ELSE IF IsPunct(v.rest, "]")
            THEN [ok |-> TRUE, type |-> "array", val |-> Append(acc, v.val),
                  rest |-> SkipSpace(Tail(v.rest))]
            ELSE SyntaxError

ParseMembers(toks0, acc) ==
  LET toks == SkipSpace(toks0) IN
  IF toks = <<>> \/ Head(toks)[1] # "string" THEN SyntaxError
  ELSE
    LET key == Head(toks)[2][1]
        afterKey == SkipSpace(Tail(toks))
    IN IF ~IsPunct(afterKey, ":") THEN SyntaxError
       ELSE
         LET v == ParseValue(Tail(afterKey)) IN
         IF ~v.ok THEN SyntaxError
         ELSE
           LET obj == [k \in DOMAIN acc \cup {key} |->
                         IF k = key THEN v.val ELSE acc[k]]
           IN IF IsPunct(v.rest, ",")
              THEN ParseMembers(Tail(v.rest), obj)
              ELSE IF IsPunct(v.rest, "}")
                   THEN [ok |-> TRUE, type |-> "object", val |-> obj,
                         rest |-> SkipSpace(Tail(v.rest))]
                   ELSE SyntaxError

\* JSON.parse of the result of getItem: null is converted to the text null.
JSONparse(item) ==
  LET text == IF item.isNull THEN <<LitTok("null")>> ELSE item.str
      v == ParseValue(text)
  IN IF v.ok /\ v.rest = <<>>
     THEN [ok |-> TRUE, type |-> v.type, val |-> v.val]
     ELSE SyntaxError

\* ---------------------------------------------------------- localStorage
getItem(store, key) ==
  IF key \in DOMAIN store
  THEN [isNull |-> FALSE, str |-> store[key]]
  ELSE [isNull |-> TRUE, str |-> <<>>]

setItem(store, key, value) ==
  [k \in DOMAIN store \cup {key} |-> IF k = key THEN value ELSE store[k]]

\* ------------------------------------------------------------ DOM (HTML)
\* The data-filter values of the filter buttons of the page.
FilterButtons == {"all", "active", "completed"}

\* The task list and the active filter buttons of the page as loaded, before
\* the first render: the list has no item and no button is marked.
InitialList == <<>>

InitialActive == {}

\* --------------------------------------------------------- the instance
\* The instance and what it reaches: its fields, the storage, the DOM, the
\* steps the running call has completed and whether it has thrown.  The
\* input field is not kept: the user can edit it between any two events, so
\* handleSubmit draws its value, and clearing it is a step of the trace.
\* storageFull tells whether localStorage refuses the writes of the call;
\* returned is the value the call returns, undefined until a return
\* statement with a value is run.
Undefined == [type |-> "undefined", val |-> <<>>]

This ==
  [tasks |-> tasks, filter |-> filter, localStorage |-> localStorage,
   list |-> list, active |-> active, storageFull |-> FALSE,
   trace |-> <<>>, raised |-> FALSE, returned |-> Undefined]

\* The instance when localStorage has no room left: setItem throws a
\* QuotaExceededError.
ThisFull == [This EXCEPT !.storageFull = TRUE]

Throw(this) == [this EXCEPT !.raised = TRUE]

Step(this, name) == [this EXCEPT !.trace = Append(@, name)]

IsArray(value) == value.type = "array"

Array(elems) == [type |-> "array", val |-> elems]

\* t.completed used as a condition: a missing property is undefined.
Completed(t) == "completed" \in DOMAIN t /\ t.completed

\* t.id === id, for a string id.
HasId(t, id) == "id" \in DOMAIN t /\ t.id = id

\* loadTasks without the catch: the SyntaxError leaves this.tasks unassigned.
loadTasksNoCatch(store) ==
  LET parsedTasks == JSONparse(getItem(store, "tasks")) IN
  IF ~parsedTasks.ok THEN [type |-> "undefined", val |-> <<>>]
  ELSE IF parsedTasks.type = "null" THEN Array(<<>>)
       ELSE [type |-> parsedTasks.type, val |-> parsedTasks.val]

loadTasks(store) ==
  LET parsedTasks == JSONparse(getItem(store, "tasks")) IN
  IF ~parsedTasks.ok THEN Array(<<>>)
  ELSE IF parsedTasks.type = "null" THEN Array(<<>>)
       ELSE [type |-> parsedTasks.type, val |-> parsedTasks.val]

\* saveTasks that writes only when there is a task to save.
saveTasksNonEmpty(this) ==
  IF this.storageFull THEN Throw(Step(this, "setItemThrows"))
  ELSE IF IsArray(this.tasks) /\ this.tasks.val = <<>> THEN this
  ELSE Step([this EXCEPT !.localStorage =
               setItem(@, "tasks", JSONstringify(this.tasks))], "setItem")

\* No try is around setItem: its exception leaves saveTasks and the caller.
saveTasks(this) ==
  IF this.storageFull THEN Throw(Step(this, "setItemThrows"))
  ELSE Step([this EXCEPT !.localStorage =
               setItem(@, "tasks", JSONstringify(this.tasks))], "setItem")

\* newTask with the task created as completed.
newTaskCompleted(text, uuid, time) ==
  [id |-> uuid, text |-> text, completed |-> TRUE, createdAt |-> time]

newTask(text, uuid, time) ==
  [id |-> uuid, text |-> text, completed |-> FALSE, createdAt |-> time]

\* addTask with the array saved before the new task is put into it.
addTaskSaveFirst(this, text, uuid, time) ==
  IF ~IsArray(this.tasks) THEN Throw(this)
  ELSE LET saved == saveTasks(Step([this EXCEPT !.tasks.val =
                                      <<newTask(text, uuid, time)>> \o @],
                                   "unshift"))
       IN IF saved.raised THEN [saved EXCEPT !.tasks = this.tasks] ELSE saved

addTask(this, text, uuid, time) ==
  IF ~IsArray(this.tasks) THEN Throw(this)
  ELSE saveTasks(Step([this EXCEPT !.tasks.val =
                         <<newTask(text, uuid, time)>> \o @], "unshift"))

toggled(t) ==
  [k \in DOMAIN t \cup {"completed"} |->
     IF k = "completed" THEN ~Completed(t) ELSE t[k]]

\* toggleTask with the branches of the conditional swapped.
toggleTaskSwapped(this, id) ==
  IF ~IsArray(this.tasks) THEN Throw(this)
  ELSE saveTasks(Step([this EXCEPT !.tasks.val =
         [i \in 1..Len(@) |-> IF HasId(@[i], id) THEN @[i] ELSE toggled(@[i])]],
         "map"))

toggleTask(this, id) ==
  IF ~IsArray(this.tasks) THEN Throw(this)
  ELSE saveTasks(Step([this EXCEPT !.tasks.val =
         [i \in 1..Len(@) |-> IF HasId(@[i], id) THEN toggled(@[i]) ELSE @[i]]],
         "map"))

\* deleteTask without the call of saveTasks.
deleteTaskUnsaved(this, id) ==
  IF ~IsArray(this.tasks) THEN Throw(this)
  ELSE Step([this EXCEPT !.tasks.val =
         SelectSeq(@, LAMBDA t : ~HasId(t, id))], "filter")

deleteTask(this, id) ==
  IF ~IsArray(this.tasks) THEN Throw(this)
  ELSE saveTasks(Step([this EXCEPT !.tasks.val =
         SelectSeq(@, LAMBDA t : ~HasId(t, id))], "filter"))

\* getVisibleTasks with no task shown under a filter it does not know.
getVisibleTasksKnownOnly(this) ==
  IF this.filter = "active"
  THEN IF ~IsArray(this.tasks) THEN [ok |-> FALSE, value |-> this.tasks]
       ELSE [ok |-> TRUE,
             value |-> Array(SelectSeq(this.tasks.val,
                                       LAMBDA t : ~Completed(t)))]
  ELSE IF this.filter = "completed"
       THEN IF ~IsArray(this.tasks) THEN [ok |-> FALSE, value |-> this.tasks]
            ELSE [ok |-> TRUE,
                  value |-> Array(SelectSeq(this.tasks.val,
                                            LAMBDA t : Completed(t)))]
       ELSE IF this.filter = "all" THEN [ok |-> TRUE, value |-> this.tasks]
            ELSE [ok |-> TRUE, value |-> Array(<<>>)]

\* The result is [ok, value]: ok is FALSE when the call throws.
getVisibleTasks(this) ==
  IF this.filter = "active"
  THEN IF ~IsArray(this.tasks) THEN [ok |-> FALSE, value |-> this.tasks]
       ELSE [ok |-> TRUE,
             value |-> Array(SelectSeq(this.tasks.val,
                                       LAMBDA t : ~Completed(t)))]
  ELSE IF this.filter = "completed"
       THEN IF ~IsArray(this.tasks) THEN [ok |-> FALSE, value |-> this.tasks]
            ELSE [ok |-> TRUE,
                  value |-> Array(SelectSeq(this.tasks.val,
                                            LAMBDA t : Completed(t)))]
       ELSE [ok |-> TRUE, value |-> this.tasks]

\* The <li> built for one task: its data-id, its checked state, its text.
TaskItem(task) ==
  [id |-> IF "id" \in DOMAIN task THEN task.id ELSE <<"undefined">>,
   completed |-> Completed(task),
   text |-> escapeHtml(task.text)]

render(this) ==
  LET visible == getVisibleTasks(this) IN
  IF ~visible.ok THEN Throw(this)
  ELSE IF ~IsArray(visible.value) THEN Throw(this)
  ELSE IF \E i \in 1..Len(visible.value.val) :
            "text" \notin DOMAIN visible.value.val[i]
       THEN Throw(this)
       ELSE Step([this EXCEPT
                    !.list = [i \in 1..Len(visible.value.val) |->
                                TaskItem(visible.value.val[i])],
                    !.active = {btn \in FilterButtons : btn = this.filter}],
                 "render")

handleSubmit(this, value, uuid, time) ==
  LET text == trim(value) IN
  IF text = <<>> THEN this
  ELSE LET added == addTask(this, text, uuid, time) IN
       IF added.raised THEN added
       ELSE render(Step(added, "clearInput"))

\* part is the element of the <li> that was clicked.
handleListClick(this, id, part) ==
  IF part = "toggle"
  THEN LET done == toggleTask(this, id) IN
       IF done.raised THEN done ELSE render(done)
  ELSE IF part = "delete"
       THEN LET done == deleteTask(this, id) IN
            IF done.raised THEN done ELSE render(done)
       ELSE this

\* handleFilterClick with the tasks saved after the filter is set.
handleFilterClickSaving(this, newFilter) ==
  IF IsArray(this.tasks)
  THEN render(saveTasks(Step([this EXCEPT !.filter = newFilter],
                             "setFilter")))
  ELSE render(Step([this EXCEPT !.filter = newFilter], "setFilter"))

handleFilterClick(this, newFilter) ==
  render(Step([this EXCEPT !.filter = newFilter], "setFilter"))

constructor(store) ==
  render(Step([tasks |-> loadTasks(store), filter |-> "all",
               localStorage |-> store, list |-> InitialList,
               active |-> InitialActive, storageFull |-> FALSE,
               trace |-> <<>>, raised |-> FALSE, returned |-> Undefined],
              "loadTasks"))

\* ------------------------------------------------- values drawn as input
\* crypto.randomUUID(): the n-th identifier drawn is unlike the earlier ones.
UUID(n) == <<"uuid", DigitChars[n + 1]>>

\* Date.now(): the clock readings a call can see.
Times == {10}

\* What the user has typed into the input field when the form is submitted.
Inputs == {<<>>, <<" ">>, <<" ", "<", " ">>}

\* The texts a caller passes to addTask directly.
TextArgs == {<<" ">>, <<" ", "<", " ">>}

\* The data-filter value a clicked button carries.
FilterValues == FilterButtons \cup {"archived"}

ExampleTask ==
  [id |-> <<"1">>, text |-> <<"x">>, completed |-> FALSE, createdAt |-> 0]

\* The strings localStorage can hold under "tasks" when the page loads:
\* not json and [ cannot be parsed;
NotJson == <<LitTok("not"), Space, LitTok("json")>>

UnparsableTexts == {NotJson, <<Punct("[")>>}

\* null, 5, {"a":1}, [{"text":"x"}], [{"id":"1"}] and [{"id":"1","text":"x"}]
\* can be parsed and are no sequence of Task records;
WrongShapeTexts ==
  { <<LitTok("null")>>,
    <<NumTok(5)>>,
    <<Punct("{"), StrTok(<<"a">>), Punct(":"), NumTok(1), Punct("}")>>,
    JSONstringify(Array(<<[text |-> <<"x">>]>>)),
    JSONstringify(Array(<<[id |-> <<"1">>]>>)),
    JSONstringify(Array(<<[id |-> <<"1">>, text |-> <<"x">>]>>)) }

\* [ ], one Task record, and two Task records with the same id are sequences
\* of Task records.
TaskListTexts ==
  { <<Punct("["), Space, Punct("]")>>,
    JSONstringify(Array(<<ExampleTask>>)),
    JSONstringify(Array(<<ExampleTask,
                          [ExampleTask EXCEPT !.completed = TRUE]>>)) }

StoredTexts == UnparsableTexts \cup WrongShapeTexts \cup TaskListTexts

StoredValues == {<<>>} \cup {[tasks |-> text] : text \in StoredTexts}

\* The ids a caller can pass to toggleTask and deleteTask.
IdArgs == {<<"nonexistent">>}

\* ---------------------------------------------------------------- actions
Result(this, op, arg) ==
  /\ tasks' = this.tasks
  /\ filter' = this.filter
  /\ localStorage' = this.localStorage
  /\ list' = this.list
  /\ active' = this.active
  /\ trace' = this.trace
  /\ raised' = this.raised
  /\ returned' = this.returned
  /\ last' = [op |-> op, arg |-> arg]

Init ==
  \E store \in StoredValues :
    LET this == constructor(store) IN
    /\ tasks = this.tasks
    /\ filter = this.filter
    /\ localStorage = this.localStorage
    /\ list = this.list
    /\ active = this.active
    /\ trace = this.trace
    /\ raised = this.raised
    /\ returned = this.returned
    /\ last = [op |-> "constructor", arg |-> <<>>]
    /\ issued = 0
    /\ bound = ~this.raised

\* The page is loaded again: the script runs from the top.
Reload ==
  LET this == constructor(localStorage) IN
  /\ Result(this, "constructor", <<>>)
  /\ bound' = ~this.raised
  /\ UNCHANGED issued

Room == IF IsArray(tasks) THEN Len(tasks.val) < MaxTasks ELSE TRUE

\* The events that write, on the instance as localStorage lets it run.
Submit(this) ==
  \E value \in Inputs, time \in Times :
    /\ trim(value) # <<>> => Room /\ issued < MaxIds
    /\ Result(handleSubmit(this, value, UUID(issued + 1), time),
              "handleSubmit", value)
    /\ issued' = IF trim(value) = <<>> THEN issued ELSE issued + 1
    /\ UNCHANGED bound

ListClick(this) ==
  \E i \in 1..Len(list), part \in {"toggle", "delete", "span"} :
    /\ Result(handleListClick(this, list[i].id, part),
              "handleListClick", <<part>> \o list[i].id)
    /\ UNCHANGED <<issued, bound>>

HandleSubmit == Submit(This)

HandleListClick == ListClick(This)

HandleFilterClick ==
  \E newFilter \in FilterValues :
    /\ Result(handleFilterClick(This, newFilter),
              "handleFilterClick", <<newFilter>>)
    /\ UNCHANGED <<issued, bound>>

\* The methods called on the instance directly (taskTracker.addTask(...)).
AddTask ==
  \E text \in TextArgs, time \in Times :
    /\ bound
    /\ Room
    /\ issued < MaxIds
    /\ Result(addTask(This, text, UUID(issued + 1), time), "addTask", text)
    /\ issued' = issued + 1
    /\ UNCHANGED bound

ToggleTask ==
  \E id \in IdArgs :
    /\ bound
    /\ Result(toggleTask(This, id), "toggleTask", id)
    /\ UNCHANGED <<issued, bound>>

DeleteTask ==
  \E id \in IdArgs :
    /\ bound
    /\ Result(deleteTask(This, id), "deleteTask", id)
    /\ UNCHANGED <<issued, bound>>

Next ==
  \/ Reload
  \/ HandleSubmit
  \/ HandleListClick
  \/ HandleFilterClick
  \/ AddTask
  \/ ToggleTask
  \/ DeleteTask

Spec == Init /\ [][Next]_vars

\* The page used through its events in a browser whose localStorage has no
\* room left (the quota is used up, or storage is disabled): every setItem
\* throws.
HandleSubmitFull == Submit(ThisFull)

HandleListClickFull == ListClick(ThisFull)

NextQuota ==
  \/ Reload
  \/ HandleFilterClick
  \/ HandleSubmitFull
  \/ HandleListClickFull

SpecQuota == Init /\ [][NextQuota]_vars

\* ----------------------------------------------------------------- claims
\* The instance after the step.
ThisNext ==
  [tasks |-> tasks', filter |-> filter', localStorage |-> localStorage',
   list |-> list', active |-> active', storageFull |-> FALSE,
   trace |-> <<>>, raised |-> FALSE, returned |-> Undefined]

Range(seq) == {seq[i] : i \in 1..Len(seq)}

\* Two values of the kind this.tasks holds are the same value.
Same(a, b) == a.type = b.type /\ a.val = b.val

\* C1: in every reachable state, so after any sequence of add, toggle and
\* delete, a store constructed from the value now in localStorage has a
\* tasks value equal to this store's: same length, same order, same fields.
C1_RoundTrip == Same(constructor(localStorage).tasks, tasks)

\* A task that was added and toggled is left after another one was deleted.
C1_Witness ==
  /\ last.op = "handleListClick"
  /\ last.arg[1] = "delete"
  /\ "setItem" \in Range(trace)
  /\ IsArray(tasks)
  /\ \E i \in 1..Len(tasks.val) :
       tasks.val[i] = [newTask(<<"<">>, UUID(1), 10) EXCEPT !.completed = TRUE]

\* The step is an add with text that is not blank; the text it stores.
IsAdd ==
  /\ last'.op \in {"addTask", "handleSubmit"}
  /\ trim(last'.arg) # <<>>

AddedText == IF last'.op = "addTask" THEN last'.arg ELSE trim(last'.arg)

\* C2: an add with non-empty text makes tasks the new task followed by the
\* tasks before, so that getVisibleTasks under all starts with the newest.
C2_AddPrepends ==
  [][IsAdd =>
       /\ IsArray(tasks)
       /\ IsArray(tasks')
       /\ Len(tasks'.val) = Len(tasks.val) + 1
       /\ Tail(tasks'.val) = tasks.val
       /\ Head(tasks'.val).text = AddedText
       /\ Same(getVisibleTasks([ThisNext EXCEPT !.filter = "all"]).value,
               tasks')
    ]_vars

\* C3: in every reachable state the ids of the tasks are pairwise distinct.
C3_IdsDistinct ==
  IsArray(tasks) =>
    \A i, j \in 1..Len(tasks.val) :
      (i # j /\ "id" \in DOMAIN tasks.val[i] /\ "id" \in DOMAIN tasks.val[j])
        => tasks.val[i].id # tasks.val[j].id

\* C4: in every reachable state filter is one of all, active, completed.
C4_FilterEnumerated == filter \in {"all", "active", "completed"}

\* C5: addTask with blank text changes neither tasks nor the stored value
\* and writes nothing.
C5_BlankAddIsNoOp ==
  [][(last'.op = "addTask" /\ trim(last'.arg) = <<>>) =>
       /\ Same(tasks', tasks)
       /\ localStorage' = localStorage
       /\ "setItem" \notin Range(trace')
    ]_vars

\* C6: a store constructed when localStorage has no value under tasks, or a
\* string that cannot be parsed, has tasks = [] and the constructor returns.
C6_AbsentOrUnparsable ==
  (/\ last.op = "constructor"
   /\ \/ "tasks" \notin DOMAIN localStorage
      \/ localStorage \in {[tasks |-> text] : text \in UnparsableTexts})
    => (Same(tasks, Array(<<>>)) /\ ~raised /\ bound)

\* The store was constructed over the string not json.
C6_Witness ==
  /\ last.op = "constructor"
  /\ localStorage = [tasks |-> NotJson]
  /\ tasks = Array(<<>>)
  /\ trace = <<"loadTasks", "render">>

\* C7: a store constructed when the stored string parses but is no sequence
\* of Task records has tasks = [] and the constructor, render included,
\* returns.
C7_WrongShape ==
  (/\ last.op = "constructor"
   /\ localStorage \in {[tasks |-> text] : text \in WrongShapeTexts})
    => (Same(tasks, Array(<<>>)) /\ ~raised /\ bound)

\* No task of tasks has the id.
NoTaskHas(id) ==
  IsArray(tasks) => \A i \in 1..Len(tasks.val) : ~HasId(tasks.val[i], id)

\* The step calls toggleTask or deleteTask with an id no task has, directly
\* or from a click on a list item.
IsAbsentIdCall ==
  \/ /\ last'.op \in {"toggleTask", "deleteTask"}
     /\ NoTaskHas(last'.arg)
  \/ /\ last'.op = "handleListClick"
     /\ last'.arg[1] \in {"toggle", "delete"}
     /\ NoTaskHas(Tail(last'.arg))

\* C8: toggleTask and deleteTask with an id that no task has leave tasks
\* as it was and do not throw.
C8_AbsentIdKeepsTasks ==
  [][IsAbsentIdCall => (Same(tasks', tasks) /\ ~raised')]_vars

\* toggleTask was called with an id none of the tasks present has.
C8_Witness ==
  /\ last.op = "toggleTask"
  /\ last.arg = <<"nonexistent">>
  /\ trace = <<"map", "setItem">>
  /\ IsArray(tasks)
  /\ Len(tasks.val) = 2
  /\ ~raised

\* The step toggles, from a click, a task that is present.
IsPresentToggle ==
  /\ last'.op = "handleListClick"
  /\ last'.arg[1] = "toggle"
  /\ ~NoTaskHas(Tail(last'.arg))

\* C9: after toggleTask(id) for an id present, a second toggleTask(id) gives
\* back the tasks there were before the first.
C9_DoubleToggle ==
  [][IsPresentToggle =>
       Same(toggleTask(ThisNext, Tail(last'.arg)).tasks, tasks)]_vars

\* The tasks getVisibleTasks returns under a filter; the call must return.
Visible(f) == getVisibleTasks([This EXCEPT !.filter = f])

\* C10: in every reachable state the tasks visible under active and those
\* visible under completed are disjoint and are together those visible
\* under all.
C10_FilterPartition ==
  /\ Visible("all").ok /\ Visible("active").ok /\ Visible("completed").ok
  /\ IsArray(Visible("all").value)
  /\ LET all == Visible("all").value.val
         act == Visible("active").value.val
         com == Visible("completed").value.val
     IN /\ Range(act) \cap Range(com) = {}
        /\ Range(act) \cup Range(com) = Range(all)
        /\ Len(act) + Len(com) = Len(all)

\* The task after has the id, text and createdAt the task before had.
KeepsOthers(before, after) ==
  \A k \in {"id", "text", "createdAt"} :
    IF k \in DOMAIN before
    THEN IF k \in DOMAIN after THEN after[k] = before[k] ELSE FALSE
    ELSE k \notin DOMAIN after

\* C11: toggleTask(id) for an id present leaves tasks with the length it
\* had and with one task changed, the one with that id, at the index it
\* had: its completed is negated, its id, text and createdAt are the same;
\* every other task is the task that was at its index.
C11_ToggleOnlyCompleted ==
  [][IsPresentToggle =>
       /\ IsArray(tasks')
       /\ Len(tasks'.val) = Len(tasks.val)
       /\ \E i \in 1..Len(tasks.val) :
            /\ HasId(tasks.val[i], Tail(last'.arg))
            /\ "completed" \in DOMAIN tasks'.val[i]
            /\ tasks'.val[i].completed = ~Completed(tasks.val[i])
            /\ KeepsOthers(tasks.val[i], tasks'.val[i])
            /\ \A j \in 1..Len(tasks.val) :
                 j # i => tasks'.val[j] = tasks.val[j]
    ]_vars

\* The step deletes, from a click, a task that is present.
IsPresentDelete ==
  /\ last'.op = "handleListClick"
  /\ last'.arg[1] = "delete"
  /\ ~NoTaskHas(Tail(last'.arg))

\* The sequence without its element at index i.
Without(seq, i) == SubSeq(seq, 1, i - 1) \o SubSeq(seq, i + 1, Len(seq))

\* C12: deleteTask(id) for an id present leaves tasks as it was with one
\* element taken out, the task with that id: the tasks that remain have the
\* values and the relative order they had.
C12_DeleteOnlyMatching ==
  [][IsPresentDelete =>
       /\ IsArray(tasks')
       /\ \E i \in 1..Len(tasks.val) :
            /\ HasId(tasks.val[i], Tail(last'.arg))
            /\ tasks'.val = Without(tasks.val, i)
    ]_vars

\* The elements of the sequence whose completed property is the value.
WithCompleted(seq, value) ==
  SelectSeq(seq, LAMBDA t : IF "completed" \in DOMAIN t
                            THEN t.completed = value ELSE FALSE)

\* C13: in every reachable state getVisibleTasks returns tasks itself under
\* all, the tasks whose completed is false, in the order of tasks, under
\* active, and the tasks whose completed is true, in that order, under
\* completed.
C13_VisibleByFilter ==
  /\ Visible("all").ok
  /\ Same(Visible("all").value, tasks)
  /\ Visible("active").ok
  /\ Visible("completed").ok
  /\ IsArray(tasks)
  /\ Visible("active").value = Array(WithCompleted(tasks.val, FALSE))
  /\ Visible("completed").value = Array(WithCompleted(tasks.val, TRUE))

\* C14: filter is all when the constructor is done, whatever localStorage
\* holds, and a filter click changes neither tasks nor the stored value and
\* writes nothing to localStorage.
C14_FilterNotPersisted ==
  /\ filter = "all"
  /\ [][/\ last'.op = "constructor" => filter' = "all"
        /\ last'.op = "handleFilterClick" =>
             /\ Same(tasks', tasks)
             /\ localStorage' = localStorage
             /\ "setItem" \notin Range(trace')
       ]_vars

\* The Completed button was clicked over two tasks, before anything was
\* written by this instance.
C14_Witness ==
  /\ last.op = "handleFilterClick"
  /\ filter = "completed"
  /\ trace = <<"setFilter", "render">>
  /\ IsArray(tasks)
  /\ Len(tasks.val) = 2
  /\ Len(list) = 1
  /\ issued = 0

\* The step is a submit with text that is not blank, or a click on the
\* checkbox or the delete button of a list item; the step of the trace
\* that changes tasks in it.
IsMutatingEvent ==
  \/ last'.op = "handleSubmit" /\ trim(last'.arg) # <<>>
  \/ last'.op = "handleListClick" /\ last'.arg[1] \in {"toggle", "delete"}

MutationStep ==
  IF last'.op = "handleSubmit" THEN "unshift"
  ELSE IF last'.arg[1] = "toggle" THEN "map" ELSE "filter"

\* C15: every submit of text that is not blank and every toggle or delete
\* click changes tasks, then writes localStorage once, the value written
\* being the tasks after the change, then reads the visible tasks and
\* renders them, in this order.
C15_MutateWriteRender ==
  [][IsMutatingEvent =>
       /\ SelectSeq(trace', LAMBDA step : step # "clearInput")
            = <<MutationStep, "setItem", "render">>
       /\ IsArray(tasks')
       /\ "tasks" \in DOMAIN localStorage'
       /\ localStorage'.tasks = JSONstringify(tasks')
    ]_vars
\* The id the toggle or delete of the step was called with.
CalledId == IF last'.op = "handleListClick" THEN Tail(last'.arg) ELSE last'.arg

\* The step calls toggleTask, or deleteTask, directly or from a click.
IsToggle ==
  \/ last'.op = "toggleTask"
  \/ last'.op = "handleListClick" /\ last'.arg[1] = "toggle"

IsDelete ==
  \/ last'.op = "deleteTask"
  \/ last'.op = "handleListClick" /\ last'.arg[1] = "delete"

\* C16: when setItem throws during an add, a toggle or a delete, tasks has
\* the change all the same: the new task is at index 0 before the tasks
\* there were, the tasks with the id have completed negated, no task has
\* the deleted id; localStorage keeps the value it had.
C16_MutationSurvivesFailedWrite ==
  []["setItemThrows" \in Range(trace') =>
       /\ raised'
       /\ localStorage' = localStorage
       /\ IsArray(tasks)
       /\ IsArray(tasks')
       /\ last'.op \in {"addTask", "handleSubmit"} =>
            /\ Len(tasks'.val) = Len(tasks.val) + 1
            /\ Tail(tasks'.val) = tasks.val
            /\ Head(tasks'.val).text = AddedText
            /\ Head(tasks'.val).completed = FALSE
       /\ IsToggle =>
            /\ Len(tasks'.val) = Len(tasks.val)
            /\ \A i \in 1..Len(tasks.val) :
                 IF HasId(tasks.val[i], CalledId)
                 THEN Completed(tasks'.val[i]) = ~Completed(tasks.val[i])
                 ELSE tasks'.val[i] = tasks.val[i]
       /\ IsDelete =>
            /\ \A i \in 1..Len(tasks'.val) : ~HasId(tasks'.val[i], CalledId)
            /\ tasks'.val = SelectSeq(tasks.val,
                                      LAMBDA t : ~HasId(t, CalledId))
    ]_vars

\* A task was submitted while localStorage, still without an entry, had no
\* room: the task is in tasks and nothing is stored.
C16_Witness ==
  /\ last.op = "handleSubmit"
  /\ trace = <<"unshift", "setItemThrows">>
  /\ raised
  /\ IsArray(tasks)
  /\ Len(tasks.val) = 1
  /\ tasks.val[1].text = <<"<">>
  /\ "tasks" \notin DOMAIN localStorage

\* Every task has a text that is not empty and neither starts nor ends
\* with whitespace.
TextsTrimmed ==
  IsArray(tasks) =>
    \A i \in 1..Len(tasks.val) :
      IF "text" \in DOMAIN tasks.val[i]
      THEN tasks.val[i].text # <<>> /\ trim(tasks.val[i].text) = tasks.val[i].text
      ELSE FALSE

\* A task that is in tasks before and after the step has the text it had.
TextsKept ==
  (IsArray(tasks) /\ IsArray(tasks')) =>
    \A i \in 1..Len(tasks.val), j \in 1..Len(tasks'.val) :
      IF HasId(tasks.val[i], IF "id" \in DOMAIN tasks'.val[j]
                             THEN tasks'.val[j].id ELSE <<>>)
      THEN IF "text" \in DOMAIN tasks.val[i]
           THEN IF "text" \in DOMAIN tasks'.val[j]
                THEN tasks'.val[j].text = tasks.val[i].text ELSE FALSE
           ELSE "text" \notin DOMAIN tasks'.val[j]
      ELSE TRUE

\* C17: in every reachable state the text of every task is not empty and
\* has no whitespace at its start or its end, and no step changes the text
\* of a task.
C17_TextTrimmedAndKept == []TextsTrimmed /\ [][TextsKept]_vars

\* C18: addTask with text that is not blank returns the task it created,
\* which has completed false and is the element at index 0 of tasks when
\* the call returns.
C18_AddReturnsTask ==
  [][(last'.op = "addTask" /\ trim(last'.arg) # <<>>) =>
       /\ ~raised'
       /\ IsArray(tasks')
       /\ Len(tasks'.val) > 0
       /\ Head(tasks'.val).completed = FALSE
       /\ IF returned'.type = "object"
          THEN returned'.val = Head(tasks'.val)
          ELSE FALSE
    ]_vars

\* C18 as the code has it: addTask with text that is not blank returns
\* undefined; when it returns, the task it created, with the text given and
\* completed false, is the element at index 0 of tasks, before the tasks
\* there were.
C18_AddReturnsNothing ==
  [][(last'.op = "addTask" /\ trim(last'.arg) # <<>>) =>
       /\ ~raised'
       /\ returned' = Undefined
       /\ IsArray(tasks)
       /\ IsArray(tasks')
       /\ Tail(tasks'.val) = tasks.val
       /\ Head(tasks'.val).text = last'.arg
       /\ Head(tasks'.val).completed = FALSE
    ]_vars

\* addTask was called with text that is not blank over one task.
C18_Witness ==
  /\ last.op = "addTask"
  /\ last.arg = <<" ", "<", " ">>
  /\ trace = <<"unshift", "setItem">>
  /\ returned = Undefined
  /\ IsArray(tasks)
  /\ Len(tasks.val) = 2
  /\ tasks.val[1].completed = FALSE
  /\ tasks.val[1].id = UUID(issued)

\* C19: toggleTask and deleteTask with an id that no task has change
\* nothing of the store: tasks, filter and the value localStorage holds are
\* after the call what they were before it.
C19_AbsentIdEffectFree ==
  [][IsAbsentIdCall =>
       /\ Same(tasks', tasks)
       /\ filter' = filter
       /\ localStorage' = localStorage
    ]_vars

\* C19 as the code has it: toggleTask and deleteTask with an id that no
\* task has leave tasks and filter as they were and write localStorage:
\* the value it holds after the call is JSON.stringify of tasks, whatever
\* it held before.
C19_AbsentIdRewritesStorage ==
  [][IsAbsentIdCall =>
       /\ Same(tasks', tasks)
       /\ filter' = filter
       /\ IsArray(tasks)
       /\ localStorage' = [tasks |-> JSONstringify(tasks)]
       /\ "setItem" \in Range(trace')
    ]_vars

\* deleteTask was called with an id no task has on a store constructed
\* over a value that gave no task: localStorage now holds [].
C19_Witness ==
  /\ last.op = "deleteTask"
  /\ last.arg = <<"nonexistent">>
  /\ trace = <<"filter", "setItem">>
  /\ issued = 0
  /\ tasks = Array(<<>>)
  /\ localStorage = [tasks |-> <<Punct("["), Punct("]")>>]

\* The last event was one whose handler changes tasks or filter.
IsChangingEvent ==
  \/ last.op = "handleSubmit" /\ trim(last.arg) # <<>>
  \/ last.op = "handleListClick" /\ last.arg[1] \in {"toggle", "delete"}
  \/ last.op = "handleFilterClick"

\* The list item is the one render makes for the task.
Shows(item, task) ==
  IF "text" \in DOMAIN task THEN item = TaskItem(task) ELSE FALSE

\* C20: once the handler of a submit, of a list click or of a filter click
\* that changes tasks or filter is over, the list shows the tasks
\* getVisibleTasks returns in the state reached, in their order, and the
\* filter buttons marked active are those whose data-filter is the filter.
C20_ViewMatchesState ==
  IsChangingEvent =>
    /\ active = {btn \in FilterButtons : btn = filter}
    /\ Visible(filter).ok
    /\ IsArray(Visible(filter).value)
    /\ Len(list) = Len(Visible(filter).value.val)
    /\ \A i \in 1..Len(list) : Shows(list[i], Visible(filter).value.val[i])

\* C21: handleSubmit with a value that trims to the empty string changes
\* nothing: no task, no write to localStorage, no render, the input not
\* cleared.  With any other value it adds one task, whose text is the
\* value trimmed, writes localStorage once, clears the input and renders
\* once.
C21_SubmitBlankOrAdd ==
  [][last'.op = "handleSubmit" =>
       IF trim(last'.arg) = <<>>
       THEN /\ Same(tasks', tasks)
            /\ localStorage' = localStorage
            /\ list' = list
            /\ active' = active
            /\ trace' = <<>>
       ELSE /\ IsArray(tasks)
            /\ IsArray(tasks')
            /\ Len(tasks'.val) = Len(tasks.val) + 1
            /\ Tail(tasks'.val) = tasks.val
            /\ Head(tasks'.val).text = trim(last'.arg)
            /\ trace' = <<"unshift", "setItem", "clearInput", "render">>
    ]_vars

\* C22: in every reachable state where filter is neither active nor
\* completed getVisibleTasks returns tasks itself, and under every filter
\* value outside the three of the buttons it returns what it returns under
\* all.
C22_UnknownFilterShowsAll ==
  /\ filter \notin {"active", "completed"} =>
       /\ getVisibleTasks(This).ok
       /\ Same(getVisibleTasks(This).value, tasks)
  /\ \A f \in FilterValues \ FilterButtons :
       /\ Visible(f).ok
       /\ Same(Visible(f).value, Visible("all").value)

\* A click set the filter to archived over an active and a completed task:
\* the list shows both.
C22_Witness ==
  /\ last.op = "handleFilterClick"
  /\ filter = "archived"
  /\ IsArray(tasks)
  /\ Len(tasks.val) = 2
  /\ Completed(tasks.val[1]) # Completed(tasks.val[2])
  /\ Len(list) = 2
  /\ active = {}
====
